---- MODULE Spec2Model ----
(***************************************************************************)
(* Model of the yogonet scraper: selector resolution (AiSelector) and      *)
(* article extraction (YogonetScraper.scrape_articles).                    *)
(*                                                                         *)
(* Strings that the code only compares (CSS selectors, sentinels) are TLA+ *)
(* strings.  Strings that the code inspects (URLs, element text) are       *)
(* sequences of one-character strings.                                     *)
(***************************************************************************)
EXTENDS Integers, Sequences, FiniteSets, TLC

VARIABLES
    pc,                 \* position of the run inside scrape_articles
    client,             \* AiSelector.client is set (TRUE) or None (FALSE)
    soup,               \* the parsed page, NoPage before the fetch
    ai_response,        \* get_selectors: outcome of the remote call in its frame
    resolve_result,     \* get_selectors: how the call ended (return/raise) and its value
    remote_calls,       \* number of chat.completions.create calls issued
    selectors,          \* scrape_articles: the selectors in use
    article_containers, \* scrape_articles: soup.select(...)[:limit]
    idx,                \* scrape_articles: position of the for loop (1-based)
    articles,           \* scrape_articles: the list being built / returned
    emitted_from,       \* history: index of the container each article came from
    visits,             \* history: indices of the containers the loop body ran for
    fetch_status,       \* scrape_articles: how requests.get / raise_for_status ended
    scrape_result,      \* scrape_articles: "returned" or "raised" once it has ended
    norm_in,            \* URL normalisation harness: the input string
    norm_out,           \* URL normalisation harness: results of one and two passes
    mpc,                \* position of the run inside cli() / main()
    write_env,          \* os.environ['WRITE_TO_BIGQUERY'] (Unset when absent)
    trace,              \* history: the stages main has invoked and what it logged
    sink_outcome,       \* how BigQueryWriter.write_articles ended
    main_result,        \* what main() returned
    ner_in,             \* entity extraction: the articles and what the model does on each
    ner_out,            \* entity extraction: the articles processed so far
    ner_calls,          \* entity extraction: results of the extract_entities calls
    met_in,             \* metrics: the title and the metric bodies that fail
    met_out             \* metrics: the row process_articles produced

scrape_vars == << pc, client, soup, ai_response, resolve_result, remote_calls, selectors,
                  article_containers, idx, articles, emitted_from, visits, fetch_status,
                  scrape_result >>

norm_vars == << norm_in, norm_out >>

main_vars == << mpc, write_env, trace, sink_outcome, main_result >>

ner_vars == << ner_in, ner_out, ner_calls >>

met_vars == << met_in, met_out >>

\* everything outside scrape_articles
other_vars == << norm_vars, main_vars, ner_vars, met_vars >>

vars == << scrape_vars, norm_vars, main_vars, ner_vars, met_vars >>

----------------------------------------------------------------------------
(* Bounds *)

MaxCands == 3          \* containers on a page
MaxUrlLen == 3         \* length of the generated URL strings
MaxMainCands == 2      \* containers on a page in the runs of main
MaxSpans == 3          \* entity spans the model returns for one text
MaxBatch == 2          \* articles handed to the entity extraction
MaxTitleLen == 3       \* length of the generated titles

----------------------------------------------------------------------------
(* Character strings *)

\* "https://www.yogonet.com"
Origin == << "h","t","t","p","s",":","/","/","w","w","w",".","y","o","g","o",
             "n","e","t",".","c","o","m" >>

Empty == << >>

startswith(s, c) == Len(s) > 0 /\ s[1] = c

\* Python truthiness of a str
Truthy(s) == Len(s) > 0

IsSpace(c) == c = " "

RECURSIVE lstrip(_)
lstrip(s) == IF Len(s) > 0 /\ IsSpace(s[1]) THEN lstrip(Tail(s)) ELSE s

RECURSIVE rstrip(_)
rstrip(s) == IF Len(s) > 0 /\ IsSpace(s[Len(s)]) THEN rstrip(SubSeq(s, 1, Len(s) - 1)) ELSE s

strip(s) == rstrip(lstrip(s))

----------------------------------------------------------------------------
(* JSON values and selector sets *)

Keys == << "article_container", "title", "kicker", "link", "image" >>

KeySet == { Keys[i] : i \in 1..Len(Keys) }

JStr(s) == [t |-> "str", s |-> s]
JNum    == [t |-> "num", s |-> "0"]
JNull   == [t |-> "null", s |-> "null"]

DefaultRule == [ article_container |-> ".contenedor_dato_modulo",
                 title |-> ".titulo",
                 kicker |-> ".volanta",
                 link |-> "a",
                 image |-> "img" ]

default_selectors == [ k \in KeySet |-> JStr(DefaultRule[k]) ]

fallback_selectors == [ k \in KeySet |-> JStr(DefaultRule[k]) ]

\* dict.get(key, dflt)
Get(d, key, dflt) == IF key \in DOMAIN d THEN d[key] ELSE dflt

----------------------------------------------------------------------------
(* The page *)

\* A page is a sequence of container elements carrying a set of class
\* selectors that match them.  For each container the record says what the
\* lookups of lines 104-107 and 115 find inside it: None when select_one/find
\* returns None, otherwise the text of the element or, for a link or an
\* image, the value of its href/src attribute (NoAttr when it has none).
\* raises tells that resolving the fields of this container throws.

None == << "None" >>

NoAttr == << "NoAttr" >>

NoPage == [matches |-> {}, cands |-> << >>]

DefaultContainer == DefaultRule.article_container

\* soupsieve rejects these selector strings with SelectorSyntaxError
BadSelectors == { "", "div[" }

SelectorSyntaxError(sel) == sel \in BadSelectors

\* soup.select(sel): all matching containers in document order
select(page, sel) == IF sel \in page.matches THEN page.cands ELSE << >>

\* soup.select_one(sel): the first match, or no element (Python None)
NoElement == << >>

select_one(page, sel) == IF select(page, sel) = << >> THEN NoElement ELSE << Head(select(page, sel)) >>

----------------------------------------------------------------------------
(* AiSelector.get_selectors *)

Return(v) == [kind |-> "return", value |-> v]

Raise(e)  == [kind |-> "raise", value |-> [k \in {} |-> JNull]]

NoResult  == [kind |-> "none", value |-> [k \in {} |-> JNull]]

EmptyMap == [k \in {} |-> JNull]

\* outcome of self.client.chat.completions.create(...) and of reading
\* response.choices[0].message.content
NotCalled == [kind |-> "not_called", value |-> [t |-> "null", has |-> FALSE, m |-> EmptyMap]]

\* json.loads(ai_response): the parsed value or the exception it raises
json_loads(outcome) ==
    CASE outcome.kind = "none"      -> [exc |-> "TypeError", value |-> outcome.value]
      [] outcome.kind = "garbage"   -> [exc |-> "JSONDecodeError", value |-> outcome.value]
      [] outcome.kind = "truncated" -> [exc |-> "JSONDecodeError", value |-> outcome.value]
      [] OTHER                      -> [exc |-> "ok", value |-> outcome.value]

\* `key not in selectors or not isinstance(selectors[key], str)` for a dict
key_invalid(m, key) == key \notin DOMAIN m \/ m[key].t # "str"

\* lines 128-130: what the validation loop does with the parsed value
validate_skip_missing(parsed) ==
    CASE parsed.t = "obj" ->
            IF \E i \in 1..Len(Keys) : Keys[i] \in DOMAIN parsed.m /\ parsed.m[Keys[i]].t # "str"
            THEN "ValueError" ELSE "ok"
      [] parsed.t \in {"num", "null"} -> "TypeError"
      [] OTHER -> IF parsed.has THEN "TypeError" ELSE "ValueError"

validate(parsed) ==
    CASE parsed.t = "obj" ->
            IF \E i \in 1..Len(Keys) : key_invalid(parsed.m, Keys[i])
            THEN "ValueError" ELSE "ok"
      [] parsed.t \in {"num", "null"} -> "TypeError"
      [] OTHER -> IF parsed.has THEN "TypeError" ELSE "ValueError"

\* line 134: except (json.JSONDecodeError, ValueError)
inner_except(e) == Return(default_selectors)

\* line 138: except Exception
outer_except_reraise(e) == Raise(e)

outer_except(e) == Return(default_selectors)

handles_inner(e) == e \in {"JSONDecodeError", "ValueError"}

\* lines 76-80: a sample article exists on the page
sample_article(page) == select_one(page, DefaultContainer)

sample_check_skipped(cl, page) == cl

remote_call_issued(cl, page) == cl /\ sample_article(page) # NoElement

get_selectors(cl, page, outcome) ==
    IF ~cl THEN Return(default_selectors)
    ELSE IF ~remote_call_issued(cl, page) THEN Return(default_selectors)
    ELSE IF outcome.kind = "raise" THEN outer_except("APIError")
    ELSE LET loaded == json_loads(outcome) IN
         IF loaded.exc # "ok"
         THEN IF handles_inner(loaded.exc) THEN inner_except(loaded.exc)
                                           ELSE outer_except(loaded.exc)
         ELSE LET v == validate(loaded.value) IN
              IF v = "ok" THEN Return(loaded.value.m)
              ELSE IF handles_inner(v) THEN inner_except(v)
                                       ELSE outer_except(v)

----------------------------------------------------------------------------
(* YogonetScraper.scrape_articles: one container *)

NoKicker == << "N","o"," ","k","i","c","k","e","r" >>

NoDate == << "N","o"," ","d","a","t","e" >>

\* Tag.get(attr, ''): the attribute value, '' when the tag has no such attribute
attr_get(elem, dflt) == IF elem = NoAttr THEN dflt ELSE elem

\* lines 119-120 and 123-124: prefix the site origin to a root-relative URL
ensure_absolute_always(u) == Origin \o u

ensure_absolute(u) == IF Truthy(u) /\ startswith(u, "/") THEN Origin \o u ELSE u

\* line 109: `if title_elem and link_elem` (a bs4 Tag is always truthy)
has_required_all(c) == c.title # None /\ c.link # None /\ c.kicker # None /\ c.image # None

has_required(c) == c.title # None /\ c.link # None

\* lines 110-116 followed by 118-124
build_article(c) ==
    [ title  |-> strip(c.title),
      kicker |-> IF c.kicker # None THEN strip(c.kicker) ELSE NoKicker,
      link   |-> ensure_absolute(attr_get(c.link, Empty)),
      image  |-> IF c.image # None THEN ensure_absolute(attr_get(c.image, Empty)) ELSE Empty,
      date   |-> IF c.date # None THEN strip(c.date) ELSE NoDate ]

\* lines 104-107: the first select_one whose selector soupsieve rejects raises
lookup_raises(sel) ==
    \E k \in {"title", "kicker", "link", "image"} :
        SelectorSyntaxError(Get(sel, k, JStr(DefaultRule[k])).s)

\* the body of the try at lines 102-126 for one container
process_container(c, sel) ==
    IF lookup_raises(sel) \/ c.raises THEN "raised"
    ELSE IF has_required(c) THEN "article"
    ELSE "skipped"

\* article_containers[:limit]
NoLimit == [some |-> FALSE, n |-> 0]

slice(seq, lim) ==
    IF ~lim.some THEN seq
    ELSE IF lim.n >= 0 THEN SubSeq(seq, 1, IF lim.n < Len(seq) THEN lim.n ELSE Len(seq))
    ELSE SubSeq(seq, 1, IF Len(seq) + lim.n > 0 THEN Len(seq) + lim.n ELSE 0)

\* main.py:73 calls scrape_articles() without a limit
limit == NoLimit

\* line 126: articles.append(article)
append_front(list, a) == << a >> \o list

append(list, a) == Append(list, a)

\* lines 128-129: the handler logs and the for loop goes on with the next container
after_error_break(i, n) == n + 1

after_error_retry(i, n) == i

after_error(i, n) == i + 1

\* lines 100-132 as a function of the container list
RECURSIVE extract(_, _)
extract(cands, sel) ==
    IF cands = << >> THEN << >>
    ELSE IF process_container(Head(cands), sel) = "article"
         THEN << build_article(Head(cands)) >> \o extract(Tail(cands), sel)
         ELSE extract(Tail(cands), sel)

----------------------------------------------------------------------------
(* Inputs *)

Full == [ title  |-> << " ", "T" >>,
          kicker |-> << "K", " " >>,
          link   |-> << "/", "n" >>,
          image  |-> << "/", "i" >>,
          date   |-> << "D" >>,
          raises |-> FALSE ]

Bare == [ title  |-> << "T" >>,
          kicker |-> None,
          link   |-> Origin \o << "/", "n" >>,
          image  |-> None,
          date   |-> None,
          raises |-> FALSE ]

CandShapes ==
    { Full, Bare,
      [Full EXCEPT !.title = None],
      [Full EXCEPT !.link = None],
      [Full EXCEPT !.link = NoAttr],
      [Full EXCEPT !.link = << "n" >>, !.image = Origin \o << "/", "i" >>],
      [Full EXCEPT !.image = << "i" >>, !.kicker = None],
      [Full EXCEPT !.image = NoAttr, !.date = None],
      [Full EXCEPT !.raises = TRUE] }

RECURSIVE SeqsUpTo(_, _)
SeqsUpTo(S, n) ==
    IF n = 0 THEN { << >> }
    ELSE LET shorter == SeqsUpTo(S, n - 1)
         IN  shorter \cup { Append(q, x) : q \in { r \in shorter : Len(r) = n - 1 }, x \in S }

AltContainer == ".alt"

AltRule == [ article_container |-> AltContainer,
             title |-> "h2",
             kicker |-> ".kicker",
             link |-> "a.link",
             image |-> "img.thumb" ]

AltMap == [ k \in KeySet |-> JStr(AltRule[k]) ]

Pages ==
    { [matches |-> m, cands |-> cs] :
        m \in { {DefaultContainer}, {DefaultContainer, AltContainer}, {AltContainer} },
        cs \in SeqsUpTo(CandShapes, MaxCands) }

Restrict(f, S) == [ k \in S |-> f[k] ]

ObjectMaps ==
    { Restrict(AltMap, S) : S \in SUBSET KeySet }
    \cup { [AltMap EXCEPT ![k] = JNum] : k \in KeySet }
    \cup { [AltMap EXCEPT ![k] = JStr("")] : k \in KeySet \ {"image"} }
    \cup { [AltMap EXCEPT !["image"] = JStr("div[")],
           [AltMap EXCEPT !["article_container"] = JStr(DefaultContainer)],
           [default_selectors EXCEPT !["title"] = JStr("")],
           default_selectors }

JObj(m) == [t |-> "obj", has |-> FALSE, m |-> m]

JOther == { [t |-> ty, has |-> h, m |-> EmptyMap] :
              ty \in {"list", "str", "num", "null"}, h \in BOOLEAN }

RemoteOutcomes ==
    { [kind |-> k, value |-> JObj(EmptyMap)] : k \in {"raise", "none", "garbage", "truncated"} }
    \cup { [kind |-> "json", value |-> JObj(m)] : m \in ObjectMaps }
    \cup { [kind |-> "json", value |-> v] : v \in { w \in JOther : w.t \in {"list", "str"} \/ ~w.has } }

----------------------------------------------------------------------------
(* The run of scrape_articles *)

Unset == << "Unset" >>

\* scrape_articles not running, at position p
ScrapeIdle(p) ==
    /\ pc = p
    /\ soup = NoPage
    /\ ai_response = NotCalled
    /\ resolve_result = NoResult
    /\ remote_calls = 0
    /\ selectors = EmptyMap
    /\ article_containers = << >>
    /\ idx = 0
    /\ articles = << >>
    /\ emitted_from = << >>
    /\ visits = << >>
    /\ fetch_status = "none"
    /\ scrape_result = "none"

NormIdle == norm_in = Empty /\ norm_out = << >>

MainIdle ==
    /\ mpc = "off"
    /\ write_env = Unset
    /\ trace = << >>
    /\ sink_outcome = "none"
    /\ main_result = "none"

NerIdle == ner_in = << >> /\ ner_out = << >> /\ ner_calls = << >>

MetIdle == met_in = [title |-> Empty, faults |-> {}] /\ met_out = << >>

Init ==
    /\ ScrapeIdle("start")
    /\ client \in BOOLEAN
    /\ NormIdle
    /\ MainIdle
    /\ NerIdle
    /\ MetIdle

\* lines 76-82: the page is fetched and parsed
FetchPageFrom(P) ==
    /\ pc = "start"
    /\ \E page \in P : soup' = page
    /\ fetch_status' = "ok"
    /\ pc' = "resolve"
    /\ UNCHANGED << client, ai_response, resolve_result, remote_calls, selectors,
                    article_containers, idx, articles, emitted_from, visits, scrape_result,
                    other_vars >>

FetchPage == FetchPageFrom(Pages)

\* lines 134-136: except requests.RequestException returns []
request_except_reraise(e) == "raised"

request_except(e) == "returned"

\* requests.get raises (line 78) or raise_for_status raises HTTPError (line 79)
TransportErrors == { "ConnectionError", "HTTPError" }

FetchFails ==
    /\ pc = "start"
    /\ \E e \in TransportErrors :
         /\ fetch_status' = e
         /\ scrape_result' = request_except(e)
    /\ pc' = "done"
    /\ articles' = << >>
    /\ UNCHANGED << client, soup, ai_response, resolve_result, remote_calls, selectors,
                    article_containers, idx, emitted_from, visits, other_vars >>

\* the end of get_selectors (lines 84-95 of scrape_articles take its result)
Resolved(outcome) ==
    LET r == get_selectors(client, soup, outcome) IN
    /\ ai_response' = outcome
    /\ resolve_result' = r
    /\ selectors' = IF r.kind = "raise" THEN fallback_selectors ELSE r.value
    /\ pc' = "select"

\* lines 84-95, calling AiSelector.get_selectors, which returns at line 69 or 80
ResolveSelectors ==
    /\ pc = "resolve"
    /\ ~remote_call_issued(client, soup)
    /\ Resolved(NotCalled)
    /\ UNCHANGED << client, soup, remote_calls, article_containers, idx, articles,
                    emitted_from, visits, fetch_status, scrape_result, other_vars >>

\* ai_selector.py lines 83-118: the request is sent; no timeout is passed to
\* OpenAI(...) at line 52 nor to create(...), the call waits for the reply
CallRemote ==
    /\ pc = "resolve"
    /\ remote_call_issued(client, soup)
    /\ remote_calls' = remote_calls + 1
    /\ pc' = "awaiting"
    /\ UNCHANGED << client, soup, ai_response, resolve_result, selectors, article_containers,
                    idx, articles, emitted_from, visits, fetch_status, scrape_result,
                    other_vars >>

\* the remote model answers or the call raises; lines 121-140 handle it
RemoteReplies ==
    /\ pc = "awaiting"
    /\ \E outcome \in RemoteOutcomes : Resolved(outcome)
    /\ UNCHANGED << client, soup, remote_calls, article_containers, idx, articles,
                    emitted_from, visits, fetch_status, scrape_result, other_vars >>

\* lines 98-100; a selector soupsieve rejects raises into lines 137-139
SelectContainers ==
    /\ pc = "select"
    /\ LET sel == Get(selectors, "article_container", JStr(DefaultContainer)).s IN
       IF SelectorSyntaxError(sel)
       THEN /\ pc' = "done"
            /\ scrape_result' = "returned"
            /\ UNCHANGED << article_containers, idx >>
       ELSE /\ article_containers' = slice(select(soup, sel), limit)
            /\ idx' = 1
            /\ pc' = "loop"
            /\ UNCHANGED scrape_result
    /\ articles' = << >>
    /\ ai_response' = NotCalled
    /\ resolve_result' = NoResult
    /\ UNCHANGED << client, soup, remote_calls, selectors, emitted_from, visits, fetch_status,
                    other_vars >>

\* lines 101-129: one iteration of the for loop
ProcessContainer ==
    /\ pc = "loop"
    /\ idx <= Len(article_containers)
    /\ LET c == article_containers[idx]
           how == process_container(c, selectors) IN
       \/ /\ how = "article"
          /\ articles' = append(articles, build_article(c))
          /\ emitted_from' = Append(emitted_from, idx)
          /\ idx' = idx + 1
       \/ /\ how = "skipped"
          /\ idx' = idx + 1
          /\ UNCHANGED << articles, emitted_from >>
       \/ /\ how = "raised"
          /\ idx' = after_error(idx, Len(article_containers))
          /\ UNCHANGED << articles, emitted_from >>
    /\ visits' = Append(visits, idx)
    /\ UNCHANGED << pc, client, soup, ai_response, resolve_result, remote_calls, selectors,
                    article_containers, fetch_status, scrape_result, other_vars >>

\* lines 131-132
ReturnArticles ==
    /\ pc = "loop"
    /\ idx > Len(article_containers)
    /\ pc' = "done"
    /\ scrape_result' = "returned"
    /\ UNCHANGED << client, soup, ai_response, resolve_result, remote_calls, selectors,
                    article_containers, idx, articles, emitted_from, visits, fetch_status,
                    other_vars >>

Next ==
    \/ FetchPage
    \/ FetchFails
    \/ ResolveSelectors
    \/ CallRemote
    \/ RemoteReplies
    \/ SelectContainers
    \/ ProcessContainer
    \/ ReturnArticles

Spec == Init /\ [][Next]_vars

----------------------------------------------------------------------------
(* cli() and main() of main.py *)

TrueStr == << "t", "r", "u", "e" >>

FalseStr == << "f", "a", "l", "s", "e" >>

\* str.lower() on the letters that occur
lower_char(c) ==
    CASE c = "T" -> "t"
      [] c = "R" -> "r"
      [] c = "U" -> "u"
      [] c = "E" -> "e"
      [] OTHER -> c

lower(str) == [ i \in 1..Len(str) |-> lower_char(str[i]) ]

\* os.environ.get(name, dflt)
env_get(env, dflt) == IF env = Unset THEN dflt ELSE env

\* line 102: os.environ.get('WRITE_TO_BIGQUERY', 'true').lower() == 'true'
bigquery_enabled_always(env) == TRUE

bigquery_enabled(env) == lower(env_get(env, TrueStr)) = TrueStr

\* line 76: `if not articles`
no_articles_never(a) == FALSE

no_articles(a) == a = << >>

\* values of WRITE_TO_BIGQUERY in the environment of the process
EnvValues ==
    { Unset, TrueStr, << "T", "R", "U", "E" >>, << "T", "r", "u", "e" >>, FalseStr,
      << "1" >>, Empty }

\* pages of the runs of main
MainPages ==
    { [matches |-> m, cands |-> cs] :
        m \in { {DefaultContainer}, {DefaultContainer, AltContainer}, {AltContainer} },
        cs \in SeqsUpTo(CandShapes, MaxMainCands) }

\* how write_articles can end: the load succeeds, preparing the rows raises
\* (lines 93-95), or _load_json_to_bigquery fails and returns False
SinkOutcomes == { "ok", "prepare_error", "load_error" }

\* bigquery_writer.py lines 81-95: the value write_articles returns
write_articles_result(outcome) == IF outcome = "ok" THEN "df" ELSE "None"

InitMain ==
    /\ ScrapeIdle("idle")
    /\ client \in BOOLEAN
    /\ NormIdle
    /\ mpc = "cli"
    /\ write_env \in EnvValues
    /\ trace = << >>
    /\ sink_outcome = "none"
    /\ main_result = "none"
    /\ NerIdle
    /\ MetIdle

\* main.py lines 128-149
Cli ==
    /\ mpc = "cli"
    /\ \E no_bigquery \in BOOLEAN :
         write_env' = IF no_bigquery THEN FalseStr ELSE write_env
    /\ mpc' = "main"
    /\ UNCHANGED << scrape_vars, norm_vars, trace, sink_outcome, main_result, ner_vars, met_vars >>

\* main.py lines 62-73: the components are built and scrape_articles is called
MainStart ==
    /\ mpc = "main"
    /\ pc = "idle"
    /\ pc' = "start"
    /\ mpc' = "scraping"
    /\ trace' = Append(trace, "scrape")
    /\ UNCHANGED << client, soup, ai_response, resolve_result, remote_calls, selectors,
                    article_containers, idx, articles, emitted_from, visits, fetch_status,
                    scrape_result, norm_vars, write_env, sink_outcome, main_result,
                    ner_vars, met_vars >>

MainFetchPage == FetchPageFrom(MainPages)

\* main.py lines 73-81: scrape_articles has ended, its frame is gone
MainAfterScrape ==
    /\ mpc = "scraping"
    /\ pc = "done"
    /\ pc' = "idle"
    /\ soup' = NoPage
    /\ selectors' = EmptyMap
    /\ article_containers' = << >>
    /\ idx' = 0
    /\ emitted_from' = << >>
    /\ visits' = << >>
    /\ IF scrape_result = "raised"
       THEN /\ mpc' = "returned"
            /\ main_result' = "failure"
       ELSE IF no_articles(articles)
       THEN /\ mpc' = "returned"
            /\ main_result' = "None"
       ELSE /\ mpc' = "annotate"
            /\ UNCHANGED main_result
    /\ UNCHANGED << client, ai_response, resolve_result, remote_calls, articles, fetch_status,
                    scrape_result, norm_vars, write_env, trace, sink_outcome, ner_vars,
                    met_vars >>

\* main.py line 85: process_articles returns the frame or raises into line 115
ProcessArticles ==
    /\ mpc = "annotate"
    /\ trace' = Append(trace, "annotate")
    /\ \/ /\ mpc' = "summary"
          /\ UNCHANGED main_result
       \/ /\ mpc' = "returned"
          /\ main_result' = "failure"
    /\ UNCHANGED << scrape_vars, norm_vars, write_env, sink_outcome, ner_vars, met_vars >>

\* main.py lines 88-99: generate_summary_report catches its own errors
GenerateSummary ==
    /\ mpc = "summary"
    /\ trace' = Append(trace, "summary")
    /\ mpc' = "gate"
    /\ UNCHANGED << scrape_vars, norm_vars, write_env, sink_outcome, main_result, ner_vars,
                    met_vars >>

\* main.py lines 102 and 106-107
WriteGate ==
    /\ mpc = "gate"
    /\ IF bigquery_enabled(write_env)
       THEN /\ mpc' = "sink"
            /\ UNCHANGED trace
       ELSE /\ mpc' = "finish"
            /\ trace' = Append(trace, "log_skipped")
    /\ UNCHANGED << scrape_vars, norm_vars, write_env, sink_outcome, main_result, ner_vars,
                    met_vars >>

\* main.py lines 103-105: write_articles is called, its value is dropped and
\* the success line is logged
WriteArticles ==
    /\ mpc = "sink"
    /\ \E outcome \in SinkOutcomes : sink_outcome' = outcome
    /\ trace' = trace \o << "sink", "log_written_ok" >>
    /\ mpc' = "finish"
    /\ UNCHANGED << scrape_vars, norm_vars, write_env, main_result, ner_vars, met_vars >>

\* main.py lines 109-113
MainReturn ==
    /\ mpc = "finish"
    /\ main_result' = "success"
    /\ mpc' = "returned"
    /\ UNCHANGED << scrape_vars, norm_vars, write_env, trace, sink_outcome, ner_vars, met_vars >>

NextMain ==
    \/ Cli
    \/ MainStart
    \/ MainFetchPage
    \/ FetchFails
    \/ ResolveSelectors
    \/ CallRemote
    \/ RemoteReplies
    \/ SelectContainers
    \/ ProcessContainer
    \/ ReturnArticles
    \/ MainAfterScrape
    \/ ProcessArticles
    \/ GenerateSummary
    \/ WriteGate
    \/ WriteArticles
    \/ MainReturn

SpecMain == InitMain /\ [][NextMain]_vars

\* The run of scrape_articles when the program takes its steps (weak
\* fairness on every step of the program); nothing makes the remote model
\* answer
ProgramStep ==
    \/ MainFetchPage
    \/ FetchFails
    \/ ResolveSelectors
    \/ CallRemote
    \/ SelectContainers
    \/ ProcessContainer
    \/ ReturnArticles

NextLive == ProgramStep \/ RemoteReplies

SpecLive == Init /\ [][NextLive]_vars /\ WF_vars(ProgramStep)

----------------------------------------------------------------------------
(* NamedEntityExtractor of named_entity.py *)

EmptyBundle == [ persons |-> << >>, organizations |-> << >>, locations |-> << >> ]

Categories == { "persons", "organizations", "locations" }

\* lines 58-63: the label table; other labels are dropped
category(label) ==
    CASE label \in { "PERSON", "PERSONAGE" }      -> "persons"
      [] label \in { "ORG", "ORGANIZATION" }      -> "organizations"
      [] label \in { "LOC", "GPE", "LOCATION" }   -> "locations"
      [] OTHER                                    -> "dropped"

\* lines 56-63: the texts appended to one category, in the order of doc.ents
RECURSIVE collect(_, _)
collect(ents, cat) ==
    IF ents = << >> THEN << >>
    ELSE IF category(Head(ents).label) = cat
         THEN << Head(ents).text >> \o collect(Tail(ents), cat)
         ELSE collect(Tail(ents), cat)

Range(seq) == { seq[i] : i \in 1..Len(seq) }

\* line 67: list(dict.fromkeys(xs)) keeps the first occurrence of each key
RECURSIVE dedupe(_)

dedupe_none(xs) == xs

dedupe(xs) ==
    IF xs = << >> THEN << >>
    ELSE LET d == dedupe(SubSeq(xs, 1, Len(xs) - 1))
             x == xs[Len(xs)]
         IN  IF x \in Range(d) THEN d ELSE Append(d, x)

\* lines 71-77: except Exception returns the empty bundle
ner_except_reraise(e) == [kind |-> "raise", value |-> EmptyBundle]

ner_except(e) == [kind |-> "return", value |-> EmptyBundle]

\* lines 32-77; model is what self.nlp(text) does: it raises or yields doc.ents
extract_entities(text, model) ==
    IF ~Truthy(text) THEN [kind |-> "return", value |-> EmptyBundle]
    ELSE IF model.kind = "fail" THEN ner_except("ModelError")
    ELSE [kind |-> "return",
          value |-> [ c \in Categories |-> dedupe(collect(model.ents, c)) ]]

\* line 88: f"{title} {kicker}"
text_to_analyze(article) == article.title \o << " " >> \o article.kicker

\* lines 86-102 for one article: the entity fields are set from the result of
\* extract_entities, or to [] when the call raised
with_entities(article, r) ==
    LET b == IF r.kind = "raise" THEN EmptyBundle ELSE r.value IN
    [ title |-> article.title, kicker |-> article.kicker, link |-> article.link,
      persons |-> b.persons, organizations |-> b.organizations, locations |-> b.locations ]

SpanTexts == { "x", "y" }

SpanLabels == { "PERSON", "ORG", "GPE", "LOC", "DATE" }

Spans == { [text |-> t, label |-> l] : t \in SpanTexts, l \in SpanLabels }

ModelFails == [kind |-> "fail", ents |-> << >>]

ModelOutcomes ==
    { ModelFails } \cup { [kind |-> "ok", ents |-> e] : e \in SeqsUpTo(Spans, MaxSpans) }

FewModelOutcomes ==
    { ModelFails,
      [kind |-> "ok", ents |-> << >>],
      [kind |-> "ok", ents |-> << [text |-> "x", label |-> "PERSON"],
                                  [text |-> "y", label |-> "GPE"],
                                  [text |-> "x", label |-> "PERSON"] >>] }

NerArticle(a, m) ==
    [ title |-> a.title, kicker |-> a.kicker, link |-> a.link, model |-> m ]

NerArticles(M) == { NerArticle(build_article(c), m) : c \in { Full, Bare }, m \in M }

NerIn(batches) ==
    /\ ScrapeIdle("ner")
    /\ client = FALSE
    /\ NormIdle
    /\ MainIdle
    /\ ner_in \in batches
    /\ ner_out = << >>
    /\ ner_calls = << >>
    /\ MetIdle

\* one text, every sequence of spans
InitNer == NerIn({ << a >> : a \in NerArticles(ModelOutcomes) })

\* a batch of articles, the model failing on some of them
InitEnrich == NerIn(SeqsUpTo(NerArticles(FewModelOutcomes), MaxBatch))

\* lines 86-102: one iteration of extract_entities_from_articles
EnrichArticle ==
    /\ pc = "ner"
    /\ Len(ner_out) < Len(ner_in)
    /\ LET article == ner_in[Len(ner_out) + 1]
           r == extract_entities(text_to_analyze(article), article.model) IN
       /\ ner_calls' = Append(ner_calls, r)
       /\ ner_out' = Append(ner_out, with_entities(article, r))
    /\ UNCHANGED << scrape_vars, norm_vars, main_vars, ner_in, met_vars >>

\* line 104
EnrichReturn ==
    /\ pc = "ner"
    /\ Len(ner_out) = Len(ner_in)
    /\ pc' = "ner_done"
    /\ UNCHANGED << client, soup, ai_response, resolve_result, remote_calls, selectors,
                    article_containers, idx, articles, emitted_from, visits, fetch_status,
                    scrape_result, norm_vars, main_vars, ner_vars, met_vars >>

NextNer == EnrichArticle \/ EnrichReturn

SpecNer == InitNer /\ [][NextNer]_vars

SpecEnrich == InitEnrich /\ [][NextNer]_vars

----------------------------------------------------------------------------
(* ArticlePostProcessor of post_processing.py *)

Uppers == { "A" }

Lowers == { "a" }

Digits == { "1" }

\* \w of the regular expressions
is_word(c) == c \in Uppers \cup Lowers \cup Digits \cup { "_" }

\* \b between positions i - 1 and i of text (i in 1..Len(text) + 1)
boundary(text, i) ==
    LET before == i > 1 /\ is_word(text[i - 1])
        after == i <= Len(text) /\ is_word(text[i]) IN
    before # after

\* len(text.split()): the maximal runs of non-whitespace
split_len(text) ==
    Cardinality({ i \in 1..Len(text) :
                    ~IsSpace(text[i]) /\ (i = 1 \/ IsSpace(text[i - 1])) })

\* end of the run [a-z]* that starts after position i
RECURSIVE lower_run_end(_, _)
lower_run_end(text, i) ==
    IF i < Len(text) /\ text[i + 1] \in Lowers THEN lower_run_end(text, i + 1) ELSE i

\* \b[A-Z][a-z]*\b matches at i: a shorter lowercase run never ends at a
\* boundary, so only the greedy run can match
match_end(text, i) ==
    IF boundary(text, i) /\ text[i] \in Uppers /\ boundary(text, lower_run_end(text, i) + 1)
    THEN lower_run_end(text, i)
    ELSE 0

\* re.findall scans left to right and resumes after each match
RECURSIVE findall_from(_, _)
findall_from(text, i) ==
    IF i > Len(text) THEN << >>
    ELSE IF match_end(text, i) > 0
         THEN << SubSeq(text, i, match_end(text, i)) >> \o findall_from(text, match_end(text, i) + 1)
         ELSE findall_from(text, i + 1)

\* re.findall(r'[^\w\s]', text)
special_chars(text) ==
    Cardinality({ i \in 1..Len(text) : ~is_word(text[i]) /\ ~IsSpace(text[i]) })

\* lines 40-51
count_words_except_reraise(e) == [kind |-> "raise", value |-> 0]

count_words_except(e) == [kind |-> "return", value |-> 0]

count_words(text, fault) ==
    IF fault THEN count_words_except("Exception")
    ELSE [kind |-> "return", value |-> split_len(text)]

\* lines 54-66
find_capitalized_words(text, fault) ==
    IF fault THEN [kind |-> "return", value |-> << >>]
    ELSE [kind |-> "return", value |-> findall_from(text, 1)]

\* lines 69-90, in hundredths: round(0.5 w + 1.5 c + 2 s, 2) of whole counts
\* is a multiple of 0.5 and is kept as it is
calculate_complexity_score(text, fault) ==
    IF fault THEN [kind |-> "return", value |-> 0]
    ELSE [kind |-> "return",
          value |-> 50 * split_len(text) + 150 * Len(findall_from(text, 1))
                    + 200 * special_chars(text)]

\* lines 26-37 for one row: the four columns, or the exception that escapes
process_row(text, faults) ==
    LET w == count_words(text, "count_words" \in faults)
        c == find_capitalized_words(text, "capitalized" \in faults)
        s == calculate_complexity_score(text, "complexity" \in faults) IN
    [ kind |-> IF w.kind = "raise" THEN "raised" ELSE "returned",
      title_word_count |-> w.value,
      title_char_count |-> Len(text),
      capitalized_words |-> c.value,
      title_complexity_score |-> s.value ]

TitleChars == { " ", "A", "a", "1", "!" }

Titles == SeqsUpTo(TitleChars, MaxTitleLen)

Faults == SUBSET { "count_words", "capitalized", "complexity" }

InitMetrics ==
    /\ ScrapeIdle("metrics")
    /\ client = FALSE
    /\ NormIdle
    /\ MainIdle
    /\ NerIdle
    /\ met_in \in { [title |-> t, faults |-> f] : t \in Titles, f \in Faults }
    /\ met_out = << >>

\* lines 19-37
ProcessRow ==
    /\ pc = "metrics"
    /\ met_out' = << process_row(met_in.title, met_in.faults) >>
    /\ pc' = "metrics_done"
    /\ UNCHANGED << client, soup, ai_response, resolve_result, remote_calls, selectors,
                    article_containers, idx, articles, emitted_from, visits, fetch_status,
                    scrape_result, norm_vars, main_vars, ner_vars, met_in >>

NextMetrics == ProcessRow

SpecMetrics == InitMetrics /\ [][NextMetrics]_vars

----------------------------------------------------------------------------
(* URL normalisation on its own: one pass per step, two passes per input *)

UrlChars == { "/", "h", ":", "n" }

UrlInputs ==
    SeqsUpTo(UrlChars, MaxUrlLen)
    \cup { Origin, Origin \o << "/", "n" >>, << "h","t","t","p",":","/","/","n" >> }

InitNorm ==
    /\ ScrapeIdle("norm")
    /\ client = FALSE
    /\ norm_in \in UrlInputs
    /\ norm_out = << >>
    /\ MainIdle
    /\ NerIdle
    /\ MetIdle

NormalizePass ==
    /\ pc = "norm"
    /\ Len(norm_out) < 2
    /\ norm_out' = Append(norm_out,
                          ensure_absolute(IF norm_out = << >> THEN norm_in
                                          ELSE norm_out[Len(norm_out)]))
    /\ UNCHANGED << scrape_vars, norm_in, main_vars, ner_vars, met_vars >>

NextNorm == NormalizePass

SpecNorm == InitNorm /\ [][NextNorm]_vars

----------------------------------------------------------------------------
(* Properties *)

Letters == { "h", "t", "p", "s", "w", "y", "o", "g", "n", "e", "c", "m", "i" }

\* an absolute URL starts with a scheme: letters followed by ":"
IsAbsolute(u) ==
    \E k \in 2..Len(u) : u[k] = ":" /\ \A j \in 1..(k - 1) : u[j] \in Letters

RoleSet(m) == \A k \in KeySet : k \in DOMAIN m /\ m[k].t = "str"

FailureOutcome ==
    \/ ~client
    \/ ai_response.kind \in { "raise", "none", "garbage", "truncated" }

\* C1: get_selectors never propagates an error: whatever the markup and the
\* outcome of the remote call, it returns a rule set, and when the client is
\* unavailable, the call raises or the payload is not (complete) JSON, the
\* rule set returned, and used by scrape_articles, is the default one.
C1_ResolveNeverFails ==
    pc = "select" =>
        /\ resolve_result.kind = "return"
        /\ RoleSet(resolve_result.value)
        /\ selectors = resolve_result.value
        /\ FailureOutcome => resolve_result.value = default_selectors

C1_Witness ==
    /\ pc = "select"
    /\ client
    /\ ai_response.kind = "raise"
    /\ remote_calls = 1
    /\ selectors = default_selectors

\* C2: the rule set handed to the extraction maps each of the five roles to
\* a non-empty string (a remote response with an empty role is replaced by
\* the default rule set).
C2_RuleSetNonEmpty ==
    pc \in { "select", "loop" } =>
        \A k \in KeySet : k \in DOMAIN selectors /\ selectors[k].t = "str" /\ selectors[k].s # ""

LacksRole(outcome) ==
    /\ outcome.kind = "json"
    /\ outcome.value.t = "obj"
    /\ \E k \in KeySet : k \notin DOMAIN outcome.value.m

\* C3: when the remote response parses as a mapping that lacks one of the
\* five roles, get_selectors returns the complete default rule set; the rule
\* set it returns is never a mix of remote and default roles and never lacks
\* a role.
C3_MissingRoleGivesDefault ==
    pc = "select" =>
        /\ LacksRole(ai_response) => resolve_result = Return(default_selectors)
        /\ DOMAIN selectors = KeySet
        /\ selectors = default_selectors
             \/ (ai_response.kind = "json" /\ selectors = ai_response.value.m)

C3_Witness ==
    /\ pc = "select"
    /\ LacksRole(ai_response)
    /\ "title" \in DOMAIN ai_response.value.m
    /\ ai_response.value.m["title"] # default_selectors["title"]
    /\ selectors = default_selectors

\* C4: on a page where nothing matches the default container rule,
\* get_selectors returns the default rule set and the remote call is never
\* issued.
C4_NoSampleNoRemoteCall ==
    select(soup, DefaultContainer) = << >> =>
        /\ remote_calls = 0
        /\ ai_response = NotCalled
        /\ pc = "select" => resolve_result = Return(default_selectors)

C4_Witness ==
    /\ pc = "select"
    /\ client
    /\ soup.cands # << >>
    /\ select(soup, DefaultContainer) = << >>
    /\ resolve_result = Return(default_selectors)

\* C5: every emitted record carries a resolved title and a resolved link
\* URL: it comes from a container in which a title element was found and a
\* link element with an href value was found.
C5_TitleAndLinkResolved ==
    \A k \in 1..Len(articles) :
        LET c == article_containers[emitted_from[k]] IN
        /\ c.title # None
        /\ c.link # None
        /\ c.link # NoAttr
        /\ articles[k].link # Empty

\* C6: the records are an order-preserving subsequence of the containers in
\* document order: at most one record per container, each record built from
\* its container, and the containers of successive records come in
\* increasing document position.
C6_OrderPreserved ==
    /\ Len(articles) <= Len(article_containers)
    /\ Len(emitted_from) = Len(articles)
    /\ Len(article_containers) <= Len(soup.cands)
    /\ \A k \in 1..Len(articles) :
         /\ emitted_from[k] \in 1..Len(article_containers)
         /\ articles[k] = build_article(article_containers[emitted_from[k]])
         /\ article_containers[emitted_from[k]] = soup.cands[emitted_from[k]]
    /\ \A k \in 1..(Len(articles) - 1) : emitted_from[k] < emitted_from[k + 1]

C6_Witness ==
    /\ pc = "done"
    /\ Len(articles) = 2
    /\ Len(article_containers) = 3
    /\ articles[1] # articles[2]
    /\ emitted_from = << 1, 3 >>

\* lines 104-106 have run to completion for the container
lookups_reach_link(c, sel) ==
    /\ ~c.raises
    /\ \A k \in {"title", "kicker", "link"} : ~SelectorSyntaxError(Get(sel, k, JStr(DefaultRule[k])).s)

EmittedWithSentinels(i) ==
    LET c == article_containers[i] IN
    \E k \in 1..Len(articles) :
        /\ emitted_from[k] = i
        /\ c.kicker = None => articles[k].kicker = NoKicker
        /\ c.image = None => articles[k].image = Empty
        /\ c.date = None => articles[k].date = NoDate

C8_NormalizeIdempotent ==
    /\ Len(norm_out) = 2 => norm_out[2] = norm_out[1]
    /\ (Len(norm_out) >= 1 /\ IsAbsolute(norm_in)) => norm_out[1] = norm_in
    /\ (Len(norm_out) >= 1 /\ startswith(norm_in, "/")) => norm_out[1] = Origin \o norm_in

C8_Witness ==
    /\ Len(norm_out) = 2
    /\ startswith(norm_in, "/")
    /\ norm_out[1] # norm_in
    /\ norm_out[2] = norm_out[1]

\* C9: in every emitted record the link is an absolute URL and the image,
\* when present, is an absolute URL.
C9_EmittedUrlsAbsolute ==
    \A k \in 1..Len(articles) :
        /\ IsAbsolute(articles[k].link)
        /\ articles[k].image # Empty => IsAbsolute(articles[k].image)

Raised(i) == process_container(article_containers[i], selectors) = "raised"

RECURSIVE without_raised(_, _)
without_raised(cands, sel) ==
    IF cands = << >> THEN << >>
    ELSE IF process_container(Head(cands), sel) = "raised"
         THEN without_raised(Tail(cands), sel)
         ELSE << Head(cands) >> \o without_raised(Tail(cands), sel)

\* C10: an exception raised while resolving the fields of one container is
\* caught at that container: it yields no record, every container is still
\* visited, and the records built so far, and returned at the end, are those
\* of the same containers with the failing ones removed.
C10_FailureIsolated ==
    pc \in { "loop", "done" } =>
        /\ \A k \in 1..Len(emitted_from) : ~Raised(emitted_from[k])
        /\ idx >= 1 =>
             articles = extract(without_raised(SubSeq(article_containers, 1, idx - 1), selectors),
                                selectors)
        /\ (pc = "done" /\ idx >= 1) => idx = Len(article_containers) + 1

C10_Witness ==
    /\ pc = "done"
    /\ Len(article_containers) = 3
    /\ article_containers[2].raises
    /\ emitted_from = << 1, 3 >>

Events == { trace[i] : i \in 1..Len(trace) }

Count(e) == Cardinality({ i \in 1..Len(trace) : trace[i] = e })

AfterScrape == mpc \in { "annotate", "summary", "gate", "sink", "finish", "returned" }

\* C11: when extraction yields zero records, main ends the run (returning
\* None) without invoking enrichment, metric annotation, summary reporting
\* or the sink.
C11_EmptyBatchShortCircuits ==
    (AfterScrape /\ articles = << >>) =>
        /\ mpc = "returned"
        /\ main_result = "None"
        /\ Events \cap { "enrich", "annotate", "summary", "sink" } = {}
        /\ sink_outcome = "none"

C11_Witness ==
    /\ mpc = "returned"
    /\ articles = << >>
    /\ fetch_status = "ok"
    /\ main_result = "None"

\* C12: in every run that hands a batch to the sink, enrichment was invoked
\* before metric annotation and both before the sink call.
C12_StagesInOrder ==
    "sink" \in Events =>
        \E i, j, k \in 1..Len(trace) :
            /\ i < j /\ j < k
            /\ trace[i] = "enrich"
            /\ trace[j] = "annotate"
            /\ trace[k] = "sink"

\* C13: when the sink append fails, main reports the run as failed (it
\* neither returns the success result nor logs the write as successful) and
\* the sink is not called a second time.
C13_SinkFailureReported ==
    (mpc = "returned" /\ sink_outcome \in { "prepare_error", "load_error" }) =>
        /\ main_result = "failure"
        /\ "log_written_ok" \notin Events
        /\ Count("sink") = 1

\* C14: when the page fetch fails with a transport error, scrape_articles
\* returns the empty list without raising, no selector resolution and no
\* remote call happen, and the sink is not invoked.
C14_TransportErrorIsNoRecords ==
    fetch_status \in TransportErrors =>
        /\ scrape_result = "returned"
        /\ articles = << >>
        /\ remote_calls = 0
        /\ resolve_result = NoResult /\ selectors = EmptyMap
        /\ "sink" \notin Events /\ sink_outcome = "none"
        /\ mpc = "returned" => main_result = "None"

C14_Witness ==
    /\ mpc = "returned"
    /\ client
    /\ fetch_status = "HTTPError"
    /\ main_result = "None"
    /\ trace = << "scrape" >>

\* C17: the remote selector call is bounded by a timeout: once the request
\* is sent, get_selectors eventually returns even if the remote model never
\* answers.
C17_RemoteCallEventuallyReturns == (pc = "awaiting") ~> (pc = "select")

\* C18: within one resolve the remote strategy is invoked at most once,
\* also after a failed or invalid response, and no container is processed a
\* second time, also after its extraction failed.
C18_NoRetries ==
    /\ remote_calls <= 1
    /\ \A i, j \in 1..Len(visits) : i # j => visits[i] # visits[j]
    /\ pc \in { "loop", "done" } => Len(visits) <= Len(article_containers)

C18_Witness ==
    /\ pc = "done"
    /\ remote_calls = 1
    /\ selectors = default_selectors
    /\ Len(article_containers) = 2
    /\ article_containers[1].raises
    /\ visits = << 1, 2 >>

TrueSpellings == { << "t", "r", "u", "e" >>, << "T", "R", "U", "E" >>, << "T", "r", "u", "e" >> }

\* C20: in any run of main the sink's write_articles is invoked at most
\* once, and only when extraction returned at least one record, annotation
\* and summary reporting have completed and WRITE_TO_BIGQUERY, 'true' when
\* unset, is 'true' in some letter case.
C20_SinkOnlyWhenEnabled ==
    /\ Count("sink") <= 1
    /\ (mpc = "sink" \/ "sink" \in Events) =>
         /\ articles # << >>
         /\ \E i, j \in 1..Len(trace) : i < j /\ trace[i] = "annotate" /\ trace[j] = "summary"
         /\ "sink" \in Events => \E j, k \in 1..Len(trace) :
                                   j < k /\ trace[j] = "summary" /\ trace[k] = "sink"
         /\ write_env = Unset \/ write_env \in TrueSpellings
         /\ main_result # "failure"
    /\ (mpc = "returned" /\ write_env # Unset /\ write_env \notin TrueSpellings) =>
         "sink" \notin Events

C20_Witness ==
    /\ mpc = "returned"
    /\ write_env = << "T", "R", "U", "E" >>
    /\ Count("sink") = 1
    /\ main_result = "success"

\* position of the first span of category cat with text x
FirstIdx(ents, cat, x) ==
    CHOOSE k \in 1..Len(ents) :
        /\ ents[k].text = x /\ category(ents[k].label) = cat
        /\ \A m \in 1..(k - 1) : ~(ents[m].text = x /\ category(ents[m].label) = cat)

CategoryTexts(ents, cat) ==
    { ents[k].text : k \in { m \in 1..Len(ents) : category(ents[m].label) = cat } }

\* C15: for every sequence of (text, label) spans the model returns, each of
\* persons, organizations and locations holds no string twice, holds exactly
\* the texts of the spans mapped to it, and lists them in the order of their
\* first occurrence among those spans.
C15_EntitiesDeduplicated ==
    \A n \in 1..Len(ner_calls) :
        ner_in[n].model.kind = "ok" =>
            LET ents == ner_in[n].model.ents
                b == ner_calls[n].value IN
            \A c \in Categories :
                /\ \A i, j \in 1..Len(b[c]) : i # j => b[c][i] # b[c][j]
                /\ Range(b[c]) = CategoryTexts(ents, c)
                /\ \A i, j \in 1..Len(b[c]) :
                     i < j => FirstIdx(ents, c, b[c][i]) < FirstIdx(ents, c, b[c][j])
                /\ ner_out[n][c] = b[c]

C15_Witness ==
    /\ pc = "ner_done"
    /\ Len(ner_in) = 1
    /\ ner_in[1].model.kind = "ok"
    /\ Len(ner_in[1].model.ents) = 3
    /\ ner_in[1].model.ents[1] = ner_in[1].model.ents[3]
    /\ ner_in[1].model.ents[1].label = "PERSON"
    /\ ner_in[1].model.ents[2].label = "PERSON"
    /\ ner_out[1].persons = << ner_in[1].model.ents[1].text, ner_in[1].model.ents[2].text >>
    /\ Len(ner_out[1].persons) = 2

\* C16: when the entity model fails on one article's text, extract_entities
\* returns the bundle with three empty categories instead of raising, the
\* article keeps its title, kicker and link, and the other articles of the
\* batch are still enriched.
C16_EnrichmentFailureIsolated ==
    /\ Len(ner_calls) = Len(ner_out)
    /\ \A n \in 1..Len(ner_out) :
         /\ ner_out[n].title = ner_in[n].title
         /\ ner_out[n].kicker = ner_in[n].kicker
         /\ ner_out[n].link = ner_in[n].link
         /\ ner_calls[n].kind = "return"
         /\ ner_in[n].model.kind = "fail" =>
              /\ ner_calls[n].value = EmptyBundle
              /\ ner_out[n].persons = << >>
              /\ ner_out[n].organizations = << >>
              /\ ner_out[n].locations = << >>
         /\ ner_in[n].model.kind = "ok" =>
              Range(ner_out[n].persons) = CategoryTexts(ner_in[n].model.ents, "persons")
    /\ pc = "ner_done" => Len(ner_out) = Len(ner_in)

C16_Witness ==
    /\ pc = "ner_done"
    /\ Len(ner_in) = 2
    /\ ner_in[1].model.kind = "fail"
    /\ ner_out[1].persons = << >>
    /\ ner_out[2].persons = << "x" >>
    /\ ner_out[2].locations = << "y" >>

AllSpace(text) == \A i \in 1..Len(text) : IsSpace(text[i])

\* C19: title_word_count and title_char_count are non-negative integers for
\* every title, both are 0 for the empty title, the character count is the
\* title's length, and an internal error in one metric turns only that metric
\* into 0 or the empty list: the row is still produced and the other metrics
\* keep the values they have without the error.
C19_MetricsTotal ==
    met_out # << >> =>
        LET row == met_out[1]
            title == met_in.title
            clean == process_row(title, {}) IN
        /\ row.kind = "returned"
        /\ row.title_word_count \in Nat
        /\ row.title_char_count \in Nat
        /\ row.title_char_count = Len(title)
        /\ row.title_word_count <= Len(title)
        /\ title = Empty => row.title_word_count = 0 /\ row.title_char_count = 0
        /\ "count_words" \in met_in.faults => row.title_word_count = 0
        /\ "capitalized" \in met_in.faults => row.capitalized_words = << >>
        /\ "complexity" \in met_in.faults => row.title_complexity_score = 0
        /\ "count_words" \notin met_in.faults =>
             /\ row.title_word_count = clean.title_word_count
             /\ (row.title_word_count = 0) = AllSpace(title)
        /\ "capitalized" \notin met_in.faults =>
             row.capitalized_words = clean.capitalized_words
        /\ "complexity" \notin met_in.faults =>
             /\ row.title_complexity_score = clean.title_complexity_score
             /\ row.title_complexity_score >= 50 * clean.title_word_count

C19_Witness ==
    /\ pc = "metrics_done"
    /\ met_in.title = << "A", "a", "!" >>
    /\ met_in.faults = { "count_words" }
    /\ met_out[1].kind = "returned"
    /\ met_out[1].title_word_count = 0
    /\ met_out[1].title_char_count = 3
    /\ met_out[1].capitalized_words = << << "A", "a" >> >>
    /\ met_out[1].title_complexity_score = 400

====
